---- MODULE Spec2Model ----
(***************************************************************************)
(* Model of the transaction submitter (Ethereum.makeTransaction) and the   *)
(* receipt tracker (Ethereum.waitForTransactionReceipt) of                 *)
(* src/lib/ethereum.js.  The remote node is the environment: every reply   *)
(* of the node is drawn from a small set.                                  *)
(***************************************************************************)
EXTENDS Integers, Sequences, FiniteSets, TLC

VARIABLES
    op,               \* the entry point that was invoked
    configGasLimit,   \* config.gasLimit (0: not configured, falsy)
    data, from, privatekey, to, attempt,   \* arguments of makeTransaction
    gasLimit, nonce, gasprice,             \* locals of makeTransaction's try block
    error,            \* the value caught by makeTransaction's catch clause
    mt_pc,            \* position of makeTransaction
    mt_txhash,        \* value makeTransaction resolved with
    mt_thrown,        \* message of the error makeTransaction rejected with
    estimateCalls,    \* number of eth.estimateGas calls made
    countCalls,       \* number of eth.getTransactionCount calls made
    priceCalls,       \* number of eth.gasPrice reads made
    estimated,        \* log of eth.estimateGas calls: the argument and the node's reply
    sent,             \* log of eth.sendRawTransaction calls: decoded tx and the node's reply
    txhash, time,     \* arguments of waitForTransactionReceipt
    receipt,          \* local: result of getTransactionReceipt
    transactionData,  \* local: result of eth.getTransaction
    w_pc,             \* position of waitForTransactionReceipt
    w_returned,       \* value waitForTransactionReceipt resolved with
    w_thrown,         \* message of the error waitForTransactionReceipt rejected with
    receiptQueries,   \* number of getTransactionReceipt calls made
    txLookups,        \* number of eth.getTransaction calls made
    lookupAt,         \* value of time at the latest eth.getTransaction call (-1: none)
    sleeps,           \* number of completed _timeout(5000) sleeps
    slept,            \* milliseconds spent in _timeout so far
    req_txhash,       \* req.params.txhash of getTransactionStatus
    reciept,          \* local of getTransactionStatus: result of getTransactionReceipt
    g_transaction,    \* local `transaction` of getTransactionStatus: result of Ethereum.getTransaction
    g_pc,             \* position of getTransactionStatus
    g_responses,      \* the responses sent on res, in order
    g_receiptQueries, \* number of getTransactionReceipt calls made by getTransactionStatus
    g_txLookups,      \* number of eth.getTransaction calls made by getTransactionStatus
    d_type, d_from, d_privatekey, d_gasLimit,   \* arguments of deployContract
    d_pc,             \* position of deployContract
    d_returned,       \* value deployContract resolved with
    d_thrown,         \* message of the error deployContract rejected with
    c_txhash, c_time, \* arguments of each of the concurrent waitForTransactionReceipt calls
    c_receipt,        \* local `receipt` of each concurrent call
    c_pc,             \* position of each concurrent call
    c_returned,       \* value each concurrent call resolved with
    c_thrown,         \* message of the error each concurrent call rejected with
    c_polls,          \* number of getTransactionReceipt calls each concurrent call made
    n_minedAt,        \* node: per hash, the elapsed time from which its receipt exists
    n_known,          \* node: per hash, whether the node has a record of the transaction
    soloOutcome,      \* per call, the outcome of that call run alone against the node
    version,          \* which of the two Escrow contracts of escrow.sol is deployed
    admins,           \* Governable.admins
    jobNonce,         \* Escrow.nonce
    payoutPeriod,     \* Escrow.payoutPeriod
    jobDetails,       \* Escrow.jobDetails
    now,              \* the block timestamp
    balances,         \* the token's balance of the contract and of every account
    paidOut,          \* per job, the tokens the contract has transferred out for it
    lastCall          \* the latest successful call: which verdict on which job, if one

mtVars == <<configGasLimit, data, from, privatekey, to, attempt, gasLimit, nonce,
            gasprice, error, mt_pc, mt_txhash, mt_thrown, estimateCalls,
            countCalls, priceCalls, estimated, sent>>
wVars == <<txhash, time, receipt, transactionData, w_pc, w_returned, w_thrown,
           receiptQueries, txLookups, lookupAt, sleeps, slept>>
gVars == <<req_txhash, reciept, g_transaction, g_pc, g_responses, g_receiptQueries,
           g_txLookups>>
dVars == <<d_type, d_from, d_privatekey, d_gasLimit, d_pc, d_returned, d_thrown>>
cVars == <<c_txhash, c_time, c_receipt, c_pc, c_returned, c_thrown, c_polls,
           n_minedAt, n_known, soloOutcome>>
eVars == <<version, admins, jobNonce, payoutPeriod, jobDetails, now, balances, paidOut,
           lastCall>>
\* the variables that getTransactionStatus does not own
otherVars == <<dVars, cVars, eVars>>
\* the variables that deployContract and its callees do not own
nonDeployVars == <<gVars, cVars, eVars>>
\* the variables that the concurrent calls do not own
nonConcurrentVars == <<op, mtVars, wVars, gVars, dVars, eVars>>
\* the variables of the service, which the Escrow contract does not own
serviceVars == <<op, mtVars, wVars, gVars, dVars, cVars>>
\* the variables that makeTransaction and waitForTransactionReceipt do not own
restVars == <<gVars, otherVars>>
vars == <<op, mtVars, wVars, restVars>>

----------------------------------------------------------------------------
(* Bounds of the environment *)

\* largest transaction count the node reports for the sender
MaxCount == 2

----------------------------------------------------------------------------
(* Values *)

Ops == {"makeTransaction", "waitForTransactionReceipt", "getTransactionStatus"}

Datas == {"0x6001", "0x6002"}
Addresses == {"0xA1"}
Undefined == "undefined"
\* a private key is a hex string that the signer accepts or not
PrivateKeys == {"validkey", "badkey"}
GasValues == {21000, 50000}
GasPrices == {20}
Hashes == {"0xh1", "0xh2"}
NoHash == "none"

NonceTooLow == "nonce too low"
OtherSendErrors == {"insufficient funds for gas * price + value", "intrinsic gas too low"}
InvalidKeyMessage == "private key length is invalid"
ReferenceErrorMessage == "gasLimit is not defined"
NoError == "none"

NotAFunctionMessage == "Ethereum.getTransaction is not a function"
NullPropertyMessage == "Cannot read property 'gas' of null"

NoSuchContractMessage == "No Such Contract Found"

HourMessage == "It's 1 hour and not mined since"
NotReachedMessage == "Not reached to blockchain nodes"

\* the receipt of the node: null, or a receipt whose status is '0x1', '0x0'
\* or missing (a node that does not report a status)
Null == [present |-> FALSE, status |-> "absent", gasUsed |-> 0]
Receipts == [present : {TRUE}, status : {"0x1", "0x0", "absent"}, gasUsed : GasValues]
ReceiptReplies == {Null} \cup Receipts

NoTransaction == [present |-> FALSE, gas |-> 0]
TransactionRecords == [present : {TRUE}, gas : GasValues]
TransactionReplies == {NoTransaction} \cup TransactionRecords

----------------------------------------------------------------------------
(* Conversions *)

RECURSIVE toHex(_)
\* web3.toHex of a number: its base-16 digits, most significant first
toHex(n) == IF n < 16 THEN <<n>> ELSE Append(toHex(n \div 16), n % 16)

RECURSIVE fromHex(_)
\* the number the node decodes from a hex quantity
fromHex(h) == IF Len(h) = 0 THEN 0
              ELSE 16 * fromHex(SubSeq(h, 1, Len(h) - 1)) + h[Len(h)]

----------------------------------------------------------------------------
(* Ethereum.makeTransaction *)

\* variant of GasLimitConfigured: the configured limit is never used
GasLimitConfigured_Never(cfg) == FALSE

\* line 75: config.gasLimit || ... : a configured limit is truthy
GasLimitConfigured(cfg) == cfg # 0

\* variant of NonceField: the nonce is advanced once too often
NonceField_OffByOne(n, a) == toHex(n + a + 1)

\* variant of NonceField: the fetched transaction count is left out
NonceField_IgnoresBase(n, a) == toHex(a)

\* line 81: nonce: this.web3.toHex(nonce + attempt)
NonceField(n, a) == toHex(n + a)

\* variant of RetryRequested: every submission error is retried
RetryRequested_AnyError(a, msg) == a < 3

\* line 97: attempt < 3 && error.message === 'nonce too low'
RetryRequested(a, msg) == a < 3 /\ msg = NonceTooLow

\* line 75: const gasLimit = config.gasLimit || this.web3.eth.estimateGas({data, from, to})
MT_ResolveGasLimit ==
    /\ mt_pc = "try"
    /\ IF GasLimitConfigured(configGasLimit)
       THEN /\ gasLimit' = configGasLimit
            /\ UNCHANGED <<estimateCalls, estimated>>
       ELSE \E g \in GasValues :
               /\ gasLimit' = g
               /\ estimateCalls' = estimateCalls + 1
               /\ estimated' = Append(estimated, [data |-> data, from |-> from,
                                                  to |-> to, reply |-> g])
    /\ mt_pc' = "fetch"
    /\ UNCHANGED <<restVars, op, configGasLimit, data, from, privatekey, to, attempt, nonce,
                   gasprice, error, mt_txhash, mt_thrown, countCalls, priceCalls, sent,
                   wVars>>

\* lines 76-79: [nonce, gasprice] = await Promise.all([getTransactionCount(from), gasPrice])
MT_FetchNonceAndGasPrice ==
    /\ mt_pc = "fetch"
    /\ \E c \in 0..MaxCount : nonce' = c
    /\ \E p \in GasPrices : gasprice' = p
    /\ countCalls' = countCalls + 1
    /\ priceCalls' = priceCalls + 1
    /\ mt_pc' = "sign"
    /\ UNCHANGED <<restVars, op, configGasLimit, data, from, privatekey, to, attempt, gasLimit,
                   error, mt_txhash, mt_thrown, estimateCalls, estimated, sent, wVars>>

\* lines 87-89: the signer rejects the private key; the error is caught at line 95
MT_SignFails ==
    /\ mt_pc = "sign"
    /\ privatekey # "validkey"
    /\ error' = InvalidKeyMessage
    /\ mt_pc' = "catch"
    /\ UNCHANGED <<restVars, op, configGasLimit, data, from, privatekey, to, attempt, gasLimit,
                   nonce, gasprice, mt_txhash, mt_thrown, estimateCalls, estimated, countCalls, priceCalls,
                   sent, wVars>>

\* variant of RawTransaction: the recipient is left out
RawTransaction_NoRecipient(nonceField, price, limit, recipient, payload) ==
    [nonce    |-> nonceField,
     gasPrice |-> toHex(price),
     gasLimit |-> toHex(limit),
     to       |-> Undefined,
     data     |-> payload]

\* lines 80-86: the raw transaction object
RawTransaction(nonceField, price, limit, recipient, payload) ==
    [nonce    |-> nonceField,
     gasPrice |-> toHex(price),
     gasLimit |-> toHex(limit),
     to       |-> recipient,
     data     |-> payload]

\* lines 80-94: build, sign and serialize the transaction and submit it; the node
\* decodes the hex fields and replies with a hash or rejects with an error
MT_Send ==
    /\ mt_pc = "sign"
    /\ privatekey = "validkey"
    /\ LET transaction == RawTransaction(NonceField(nonce, attempt), gasprice, gasLimit, to, data)
           decoded == [nonce    |-> fromHex(transaction.nonce),
                       gasPrice |-> fromHex(transaction.gasPrice),
                       gasLimit |-> fromHex(transaction.gasLimit),
                       to       |-> transaction.to,
                       data     |-> transaction.data]
       IN \E reply \in Hashes \cup {NonceTooLow} \cup OtherSendErrors :
             /\ sent' = Append(sent, [tx |-> decoded, reply |-> reply])
             /\ IF reply \in Hashes
                THEN /\ mt_txhash' = reply
                     /\ mt_pc' = "returned"
                     /\ UNCHANGED error
                ELSE /\ error' = reply
                     /\ mt_pc' = "catch"
                     /\ UNCHANGED mt_txhash
    /\ UNCHANGED <<restVars, op, configGasLimit, data, from, privatekey, to, attempt, gasLimit,
                   nonce, gasprice, mt_thrown, estimateCalls, estimated, countCalls, priceCalls, wVars>>

\* lines 95-108: the retry branch evaluates the arguments of the recursive call;
\* gasLimit is a const of the try block and is not in scope in the catch block,
\* so evaluating it throws a ReferenceError before the call is made
MT_Catch ==
    /\ mt_pc = "catch"
    /\ IF RetryRequested(attempt, error)
       THEN mt_thrown' = ReferenceErrorMessage
       ELSE mt_thrown' = error
    /\ mt_pc' = "threw"
    /\ UNCHANGED <<restVars, op, configGasLimit, data, from, privatekey, to, attempt, gasLimit,
                   nonce, gasprice, error, mt_txhash, estimateCalls, estimated, countCalls, priceCalls,
                   sent, wVars>>

----------------------------------------------------------------------------
(* Ethereum.waitForTransactionReceipt *)

\* variant of HourExceeded: the ceiling is checked one poll late
HourExceeded_Late(t) == t > 3605000

\* line 118: time > 3600000
HourExceeded(t) == t > 3600000

\* variant of InWindow: the upper end of the window is excluded
InWindow_Exclusive(t) == t > 60000 /\ t < 70000

\* variant of InWindow: the window stays open one poll longer
InWindow_Wide(t) == t > 60000 /\ t <= 75000

\* line 121: time > 60000 && time <= 70000
InWindow(t) == t > 60000 /\ t <= 70000

\* line 128: this._timeout(5000)
SleepMillis == 5000

\* variant of NextTime: the elapsed time advances by two intervals per sleep
NextTime_Double(t) == t + 10000

\* line 129: time + 5000
NextTime(t) == t + 5000

\* line 127: receipt === null
ReceiptIsNull(r) == r = Null

\* variant of NoTransactionData: the test never recognises the node's null
NoTransactionData_NeverNull(d) == FALSE

\* line 123: !transactionData
NoTransactionData(d) == ~d.present

\* lines 118-126 are passed: either eth.getTransaction answered with a record, or
\* neither check applied
ChecksPassed ==
    \/ w_pc = "branch"
    \/ w_pc = "checks" /\ ~HourExceeded(time) /\ ~InWindow(time)

\* line 117: const receipt = await this.getTransactionReceipt(txhash)
W_GetReceipt ==
    /\ w_pc = "query"
    /\ \E r \in ReceiptReplies : receipt' = r
    /\ receiptQueries' = receiptQueries + 1
    /\ w_pc' = "checks"
    /\ UNCHANGED <<restVars, op, mtVars, txhash, time, transactionData, w_returned, w_thrown,
                   txLookups, lookupAt, sleeps, slept>>

\* lines 118-120: throw new Error("It's 1 hour and not mined since")
W_HourCheck ==
    /\ w_pc = "checks"
    /\ HourExceeded(time)
    /\ w_thrown' = HourMessage
    /\ w_pc' = "threw"
    /\ UNCHANGED <<restVars, op, mtVars, txhash, time, receipt, transactionData, w_returned,
                   receiptQueries, txLookups, lookupAt, sleeps, slept>>

\* lines 121-126: transactionData = await this.web3.eth.getTransaction(txhash)
W_GetTransaction ==
    /\ w_pc = "checks"
    /\ ~HourExceeded(time)
    /\ InWindow(time)
    /\ \E d \in TransactionReplies :
          /\ transactionData' = d
          /\ IF NoTransactionData(d)
             THEN /\ w_thrown' = NotReachedMessage
                  /\ w_pc' = "threw"
             ELSE /\ w_pc' = "branch"
                  /\ UNCHANGED w_thrown
    /\ txLookups' = txLookups + 1
    /\ lookupAt' = time
    /\ UNCHANGED <<restVars, op, mtVars, txhash, time, receipt, w_returned, receiptQueries,
                   sleeps, slept>>

\* lines 127-128: receipt === null: await this._timeout(5000) is started
W_Sleep ==
    /\ ChecksPassed
    /\ ReceiptIsNull(receipt)
    /\ w_pc' = "sleep"
    /\ UNCHANGED <<restVars, op, mtVars, txhash, time, receipt, transactionData, w_returned,
                   w_thrown, receiptQueries, txLookups, lookupAt, sleeps, slept>>

\* lines 128-129, 140-142: the timer fires and the function calls itself with
\* time + 5000; the new call has fresh locals
W_Wake ==
    /\ w_pc = "sleep"
    /\ sleeps' = sleeps + 1
    /\ slept' = slept + SleepMillis
    /\ time' = NextTime(time)
    /\ receipt' = Null
    /\ transactionData' = NoTransaction
    /\ w_pc' = "query"
    /\ UNCHANGED <<restVars, op, mtVars, txhash, w_returned, w_thrown, receiptQueries,
                   txLookups, lookupAt>>

\* lines 130-133: return receipt
W_Return ==
    /\ ChecksPassed
    /\ ~ReceiptIsNull(receipt)
    /\ w_returned' = receipt
    /\ w_pc' = "returned"
    /\ UNCHANGED <<restVars, op, mtVars, txhash, time, receipt, transactionData, w_thrown,
                   receiptQueries, txLookups, lookupAt, sleeps, slept>>

----------------------------------------------------------------------------
(* Transaction.getTransactionStatus (src/app/controllers/transaction.controller.js) *)

\* the methods of class Ethereum (src/lib/ethereum.js lines 11-153); the
\* controller's Ethereum is the exported instance of that class
EthereumMethods ==
    {"loadContracts", "loadContract", "deployContract", "callContractFunction",
     "makeTransaction", "getTransactionReceipt", "waitForTransactionReceipt",
     "toAscii", "_timeout", "_createDeployableContract"}

\* lines 34 and 41: Ethereum.getTransaction(...) can be called only if it is a method
CanCall(method) == method \in EthereumMethods

\* line 33: !reciept
NoReciept(r) == ~r.present

\* line 40: reciept.status == '0x0'
StatusIsFailure(r) == r.status = "0x0"

\* line 42: reciept.gasUsed == transaction.gas
GasExhausted(r, t) == r.gasUsed = t.gas

\* variant of Respond: the response is sent a second time
Respond_Twice(responses, kind, body) ==
    Append(Append(responses, [kind |-> kind, body |-> body]), [kind |-> kind, body |-> body])

\* lines 36-49: return Responder.success(res, ...) / Responder.operationFailed(res, err)
\* sends one response
Respond(responses, kind, body) == Append(responses, [kind |-> kind, body |-> body])

\* line 32: const reciept = await Ethereum.getTransactionReceipt(req.params.txhash)
G_GetReceipt ==
    /\ g_pc = "start"
    /\ \E r \in ReceiptReplies : reciept' = r
    /\ g_receiptQueries' = g_receiptQueries + 1
    /\ g_pc' = "classify"
    /\ UNCHANGED <<otherVars, op, mtVars, wVars, req_txhash, g_transaction, g_responses, g_txLookups>>

\* lines 33-39 (and 48-50): the receipt is absent
G_ClassifyAbsent ==
    /\ g_pc = "classify"
    /\ NoReciept(reciept)
    /\ IF CanCall("getTransaction")
       THEN \E t \in TransactionReplies :
               /\ g_transaction' = t
               /\ g_txLookups' = g_txLookups + 1
               /\ g_responses' = Respond(g_responses, "success",
                                         IF NoTransactionData(t) THEN "NOT_REACHED"
                                                                 ELSE "PENDING")
       ELSE /\ g_responses' = Respond(g_responses, "operationFailed", NotAFunctionMessage)
            /\ UNCHANGED <<g_transaction, g_txLookups>>
    /\ g_pc' = "responded"
    /\ UNCHANGED <<otherVars, op, mtVars, wVars, req_txhash, reciept, g_receiptQueries>>

\* lines 40-46 (and 48-50): the receipt reports a failure
G_ClassifyFailure ==
    /\ g_pc = "classify"
    /\ ~NoReciept(reciept)
    /\ StatusIsFailure(reciept)
    /\ IF CanCall("getTransaction")
       THEN \E t \in TransactionReplies :
               /\ g_transaction' = t
               /\ g_txLookups' = g_txLookups + 1
               /\ g_responses' =
                     IF NoTransactionData(t)
                     THEN Respond(g_responses, "operationFailed", NullPropertyMessage)
                     ELSE Respond(g_responses, "success",
                                  IF GasExhausted(reciept, t) THEN "OUTOFGAS"
                                                              ELSE "REVERTED")
       ELSE /\ g_responses' = Respond(g_responses, "operationFailed", NotAFunctionMessage)
            /\ UNCHANGED <<g_transaction, g_txLookups>>
    /\ g_pc' = "responded"
    /\ UNCHANGED <<otherVars, op, mtVars, wVars, req_txhash, reciept, g_receiptQueries>>

\* line 47: return Responder.success(res, status.SUCCESS)
G_ClassifySuccess ==
    /\ g_pc = "classify"
    /\ ~NoReciept(reciept)
    /\ ~StatusIsFailure(reciept)
    /\ g_responses' = Respond(g_responses, "success", "SUCCESS")
    /\ g_pc' = "responded"
    /\ UNCHANGED <<otherVars, op, mtVars, wVars, req_txhash, reciept, g_transaction,
                   g_receiptQueries, g_txLookups>>

----------------------------------------------------------------------------
(* Ethereum.deployContract *)

\* lines 41, 145: the keys of this.contracts (lower-cased names of the loaded .sol files)
LoadedContracts == {"escrow"}
ContractTypes == LoadedContracts \cup {"token"}

\* lines 149-151: the deployment data of a loaded contract
DeployData(type) == "0x6001"

\* variant of SubmissionResolved: the tracker is started whenever the submission settled
SubmissionResolved_Settled(pc) == pc \in {"returned", "threw"}

\* line 49: `await this.makeTransaction(...)` continues only when the call resolved
SubmissionResolved(pc) == pc = "returned"

\* lines 48, 144-147: _createDeployableContract throws for an unknown type
D_CreateFails ==
    /\ d_pc = "create"
    /\ d_type \notin LoadedContracts
    /\ d_thrown' = NoSuchContractMessage
    /\ d_pc' = "threw"
    /\ UNCHANGED <<op, mtVars, wVars, nonDeployVars, d_type, d_from, d_privatekey, d_gasLimit,
                   d_returned>>

\* lines 48-54: makeTransaction(contracttodeploy, from, privatekey, gasLimit) is
\* called: its fourth parameter is `to`, and attempt takes its default 0
D_CallMakeTransaction ==
    /\ d_pc = "create"
    /\ d_type \in LoadedContracts
    /\ data' = DeployData(d_type)
    /\ from' = d_from
    /\ privatekey' = d_privatekey
    /\ to' = d_gasLimit
    /\ attempt' = 0
    /\ mt_pc' = "try"
    /\ d_pc' = "submitting"
    /\ UNCHANGED <<op, configGasLimit, gasLimit, nonce, gasprice, error, mt_txhash,
                   mt_thrown, estimateCalls, estimated, countCalls, priceCalls, sent,
                   wVars, nonDeployVars, d_type, d_from, d_privatekey, d_gasLimit, d_returned,
                   d_thrown>>

\* line 49: makeTransaction rejected; deployContract rejects with the same error
D_SubmitFailed ==
    /\ d_pc = "submitting"
    /\ mt_pc = "threw"
    /\ d_thrown' = mt_thrown
    /\ d_pc' = "threw"
    /\ UNCHANGED <<op, mtVars, wVars, nonDeployVars, d_type, d_from, d_privatekey, d_gasLimit,
                   d_returned>>

\* lines 49-55: txHash = the resolved value; waitForTransactionReceipt(txHash) is called
D_CallWait ==
    /\ d_pc = "submitting"
    /\ SubmissionResolved(mt_pc)
    /\ txhash' = mt_txhash
    /\ w_pc' = "query"
    /\ d_pc' = "tracking"
    /\ UNCHANGED <<op, mtVars, time, receipt, transactionData, w_returned, w_thrown,
                   receiptQueries, txLookups, lookupAt, sleeps, slept, nonDeployVars, d_type,
                   d_from, d_privatekey, d_gasLimit, d_returned, d_thrown>>

\* line 55: return await this.waitForTransactionReceipt(txHash)
D_Return ==
    /\ d_pc = "tracking"
    /\ w_pc = "returned"
    /\ d_returned' = w_returned
    /\ d_pc' = "returned"
    /\ UNCHANGED <<op, mtVars, wVars, nonDeployVars, d_type, d_from, d_privatekey, d_gasLimit,
                   d_thrown>>

\* line 55: waitForTransactionReceipt rejected; deployContract rejects with the same error
D_TrackFailed ==
    /\ d_pc = "tracking"
    /\ w_pc = "threw"
    /\ d_thrown' = w_thrown
    /\ d_pc' = "threw"
    /\ UNCHANGED <<op, mtVars, wVars, nonDeployVars, d_type, d_from, d_privatekey, d_gasLimit,
                   d_returned>>

----------------------------------------------------------------------------
(* Two concurrent calls of Ethereum.waitForTransactionReceipt *)

Procs == {1, 2}

\* the latest poll (counted from 0) at which a receipt first exists, unless the
\* transaction is never mined
MaxMinedPoll == 14
Never == -1
\* a receipt first exists at one of the first two polls or at a poll from the
\* 65000 ms one on
MinedTimes == {5000 * k : k \in {j \in 0..MaxMinedPoll : j <= 1 \/ j >= 13}}

\* the node's reply to getTransactionReceipt(h) of the call that has waited t
NodeReceipt(h, minedAt, t) ==
    IF minedAt[h] # Never /\ t >= minedAt[h]
    THEN [present |-> TRUE, status |-> (IF h = "0xh1" THEN "0x1" ELSE "0x0"),
          gasUsed |-> 21000]
    ELSE Null

\* the node's reply to eth.getTransaction(h)
NodeTransaction(h, known) ==
    IF known[h] THEN [present |-> TRUE, gas |-> 21000] ELSE NoTransaction

\* variant of Frame: the elapsed time lives in one place shared by all calls
Frame_Shared(i) == 1

\* line 115: txhash and time are parameters, line 117: receipt is a local: every
\* call has its own
Frame(i) == i

\* lines 115-134: one call of waitForTransactionReceipt for hash h run alone: it
\* ends the operation or calls itself with time + 5000
SoloCall(h, minedAt, known, st) ==
    LET t == st.time
        r == NodeReceipt(h, minedAt, t)
    IN IF st.pc # "running" THEN st
       ELSE IF HourExceeded(t)
       THEN [pc |-> "threw", thrown |-> HourMessage, returned |-> Null, time |-> t]
       ELSE IF InWindow(t) /\ NoTransactionData(NodeTransaction(h, known))
       THEN [pc |-> "threw", thrown |-> NotReachedMessage, returned |-> Null, time |-> t]
       ELSE IF ReceiptIsNull(r)
       THEN [pc |-> "running", thrown |-> NoError, returned |-> Null,
             time |-> NextTime(t)]
       ELSE [pc |-> "returned", thrown |-> NoError, returned |-> r, time |-> t]

RECURSIVE SoloRun(_, _, _, _, _)
\* n successive calls, evaluated by halving
SoloRun(h, minedAt, known, st, n) ==
    IF n = 1 THEN SoloCall(h, minedAt, known, st)
    ELSE LET mid == SoloRun(h, minedAt, known, st, n \div 2)
         IN IF mid.pc # "running" THEN mid
            ELSE SoloRun(h, minedAt, known, mid, n - (n \div 2))

\* the operation for hash h run alone from elapsed time 0: 1024 calls are more
\* than any operation makes
Solo(h, minedAt, known) ==
    SoloRun(h, minedAt, known,
            [pc |-> "running", thrown |-> NoError, returned |-> Null, time |-> 0], 1024)

CChecksPassed(i) ==
    \/ c_pc[i] = "branch"
    \/ c_pc[i] = "checks" /\ ~HourExceeded(c_time[i]) /\ ~InWindow(c_time[i])

\* line 117
C_GetReceipt(i) ==
    /\ c_pc[i] = "query"
    /\ c_receipt' = [c_receipt EXCEPT ![Frame(i)] =
                        NodeReceipt(c_txhash[i], n_minedAt, c_time[i])]
    /\ c_polls' = [c_polls EXCEPT ![i] = @ + 1]
    /\ c_pc' = [c_pc EXCEPT ![i] = "checks"]
    /\ UNCHANGED <<nonConcurrentVars, c_txhash, c_time, c_returned, c_thrown,
                   n_minedAt, n_known, soloOutcome>>

\* lines 118-120
C_HourCheck(i) ==
    /\ c_pc[i] = "checks"
    /\ HourExceeded(c_time[i])
    /\ c_thrown' = [c_thrown EXCEPT ![i] = HourMessage]
    /\ c_pc' = [c_pc EXCEPT ![i] = "threw"]
    /\ UNCHANGED <<nonConcurrentVars, c_txhash, c_time, c_receipt, c_returned,
                   c_polls, n_minedAt, n_known, soloOutcome>>

\* lines 121-126
C_GetTransaction(i) ==
    /\ c_pc[i] = "checks"
    /\ ~HourExceeded(c_time[i])
    /\ InWindow(c_time[i])
    /\ IF NoTransactionData(NodeTransaction(c_txhash[i], n_known))
       THEN /\ c_thrown' = [c_thrown EXCEPT ![i] = NotReachedMessage]
            /\ c_pc' = [c_pc EXCEPT ![i] = "threw"]
       ELSE /\ c_pc' = [c_pc EXCEPT ![i] = "branch"]
            /\ UNCHANGED c_thrown
    /\ UNCHANGED <<nonConcurrentVars, c_txhash, c_time, c_receipt, c_returned,
                   c_polls, n_minedAt, n_known, soloOutcome>>

\* lines 127-128
C_Sleep(i) ==
    /\ CChecksPassed(i)
    /\ ReceiptIsNull(c_receipt[i])
    /\ c_pc' = [c_pc EXCEPT ![i] = "sleep"]
    /\ UNCHANGED <<nonConcurrentVars, c_txhash, c_time, c_receipt, c_returned,
                   c_thrown, c_polls, n_minedAt, n_known, soloOutcome>>

\* lines 128-129, 140-142
C_Wake(i) ==
    /\ c_pc[i] = "sleep"
    /\ c_time' = [c_time EXCEPT ![Frame(i)] = NextTime(c_time[i])]
    /\ c_pc' = [c_pc EXCEPT ![i] = "query"]
    /\ UNCHANGED <<nonConcurrentVars, c_txhash, c_receipt, c_returned, c_thrown,
                   c_polls, n_minedAt, n_known, soloOutcome>>

\* lines 130-133
C_Return(i) ==
    /\ CChecksPassed(i)
    /\ ~ReceiptIsNull(c_receipt[i])
    /\ c_returned' = [c_returned EXCEPT ![i] = c_receipt[i]]
    /\ c_pc' = [c_pc EXCEPT ![i] = "returned"]
    /\ UNCHANGED <<nonConcurrentVars, c_txhash, c_time, c_receipt, c_thrown,
                   c_polls, n_minedAt, n_known, soloOutcome>>

CStep(i) ==
    \/ C_GetReceipt(i)
    \/ C_HourCheck(i)
    \/ C_GetTransaction(i)
    \/ C_Sleep(i)
    \/ C_Wake(i)
    \/ C_Return(i)

----------------------------------------------------------------------------
(* contract Escrow is Governable (src/contract/escrow.sol): the contract of     *)
(* lines 121-329 (version 1) and the contract of lines 451-581 (version 2).     *)
(* A call whose require fails reverts: it changes nothing and is not a step.    *)

\* the largest number of jobs added
MaxJobs == 1

Accounts == {"a1", "a2"}
ZeroAddress == "0x0"
This == "this"
Deployer == "a1"
\* the stakes callers offer
Stakes == {0, 1}
\* the token's balances at construction: every account holds one token, and the
\* contract holds what was transferred to its address, if anything
InitialBalances ==
    {[a \in Accounts \cup {This} |-> IF a = This THEN held ELSE 1] : held \in Stakes}
\* the block timestamps
Times == 0..2
JobIds == 0..(MaxJobs - 1)

\* line 123 / 454: enum JobState
JobStates == {"Absent", "Created", "Assigned", "Completed", "Arbitration", "Paid",
              "Unacceptable"}

\* lines 125-135 / 456-465: struct Job, zero-initialised
AbsentJob ==
    [vodiant |-> ZeroAddress, vodeer |-> ZeroAddress, vodeerTokensStaked |-> 0,
     vodiantTokensStaked |-> 0, payoutStartTime |-> 0, arbitrationTime |-> 0,
     arbiter |-> ZeroAddress, vodiantDissatisfied |-> FALSE, status |-> "Absent"]

\* the latest successful call, when it is not a verdict
OtherCall == [name |-> "other", nonce |-> 0]

\* lines 101-109: isAdmin
IsAdmin(addr) == \E i \in 1..Len(admins) : admins[i] = addr

\* lines 114-118: ERC20 transfer / transferFrom succeed when the payer holds the tokens
CanPay(payer, tokens) == balances[payer] >= tokens

Move(bal, payer, payee, tokens) ==
    IF payer = payee THEN bal
    ELSE [bal EXCEPT ![payer] = @ - tokens, ![payee] = @ + tokens]

\* variant of VerdictStatus: the verdict is assigned to the job's status
VerdictStatus_Assigned(status, verdict) == verdict

\* lines 308, 322 / 556, 569: `jobDetails[_nonce].status == JobState.X;` compares
\* and discards the result: the status stays what it was
VerdictStatus(status, verdict) == status

\* lines 213-225 / 491-503
addJob(sender, tokens) ==
    /\ jobNonce < MaxJobs
    /\ CanPay(sender, tokens)
    /\ jobDetails' = [jobDetails EXCEPT ![jobNonce] =
                         [@ EXCEPT !.vodiant = sender, !.vodiantTokensStaked = tokens,
                                   !.status = "Created"]]
    /\ jobNonce' = jobNonce + 1
    /\ balances' = Move(balances, sender, This, tokens)
    /\ lastCall' = OtherCall
    /\ UNCHANGED <<serviceVars, version, admins, payoutPeriod, now, paidOut>>

\* lines 227-239 (version 1) / 505-515 (version 2: the vodeer stakes tokens too)
applyForJob(sender, n, tokens) ==
    /\ jobDetails[n].status = "Created"
    /\ IF version = 1 THEN tokens = 0 ELSE CanPay(sender, tokens)
    /\ jobDetails' = [jobDetails EXCEPT ![n] =
                         [@ EXCEPT !.vodeer = sender, !.vodeerTokensStaked = tokens,
                                   !.status = "Assigned"]]
    /\ balances' = Move(balances, sender, This, tokens)
    /\ lastCall' = OtherCall
    /\ UNCHANGED <<serviceVars, version, admins, jobNonce, payoutPeriod, now, paidOut>>

\* lines 241-250 / 517-523
submitWork(sender, n) ==
    /\ jobDetails[n].vodeer = sender
    /\ jobDetails[n].status = "Assigned"
    /\ jobDetails' = [jobDetails EXCEPT ![n] =
                         [@ EXCEPT !.status = "Completed",
                                   !.payoutStartTime = IF version = 1 THEN now ELSE @]]
    /\ lastCall' = OtherCall
    /\ UNCHANGED <<serviceVars, version, admins, jobNonce, payoutPeriod, now, balances,
                   paidOut>>

\* lines 252-264 (version 1) / 525-532 (version 2)
dissatisfactoryWorkSubmitted(sender, n) ==
    /\ jobDetails[n].status = "Completed"
    /\ jobDetails[n].vodiant = sender
    /\ jobDetails[n].vodiantDissatisfied = FALSE
    /\ IF version = 1
       THEN /\ now - jobDetails[n].payoutStartTime <= payoutPeriod
            /\ jobDetails' = [jobDetails EXCEPT ![n] =
                                 [@ EXCEPT !.vodiantDissatisfied = TRUE,
                                           !.status = "Arbitration",
                                           !.arbitrationTime = now]]
       ELSE jobDetails' = [jobDetails EXCEPT ![n] =
                                 [@ EXCEPT !.vodiantDissatisfied = TRUE]]
    /\ lastCall' = OtherCall
    /\ UNCHANGED <<serviceVars, version, admins, jobNonce, payoutPeriod, now, balances,
                   paidOut>>

\* lines 266-279 (version 1: names the arbiter) / 534-541 (version 2: opens arbitration)
raiseDispute(sender, n, arbiter) ==
    /\ jobDetails[n].vodeer = sender
    /\ jobDetails[n].vodiantDissatisfied = TRUE
    /\ IF version = 1
       THEN /\ arbiter # ZeroAddress
            /\ jobDetails[n].status = "Arbitration"
            /\ now - jobDetails[n].arbitrationTime <= payoutPeriod
            /\ jobDetails[n].arbiter = ZeroAddress
            /\ jobDetails' = [jobDetails EXCEPT ![n] = [@ EXCEPT !.arbiter = arbiter]]
       ELSE /\ arbiter = ZeroAddress
            /\ jobDetails[n].status = "Completed"
            /\ jobDetails' = [jobDetails EXCEPT ![n] = [@ EXCEPT !.status = "Arbitration"]]
    /\ lastCall' = OtherCall
    /\ UNCHANGED <<serviceVars, version, admins, jobNonce, payoutPeriod, now, balances,
                   paidOut>>

\* lines 543-550 (version 2 only)
assignArbiter(sender, n, arbiter) ==
    /\ version = 2
    /\ IsAdmin(sender)
    /\ jobDetails[n].status = "Arbitration"
    /\ jobDetails[n].arbiter = ZeroAddress
    /\ arbiter # ZeroAddress
    /\ jobDetails' = [jobDetails EXCEPT ![n] = [@ EXCEPT !.arbiter = arbiter]]
    /\ lastCall' = OtherCall
    /\ UNCHANGED <<serviceVars, version, admins, jobNonce, payoutPeriod, now, balances,
                   paidOut>>

\* lines 281-300 (version 1 only); hasTransferred pays msg.sender after the body
claimPayout(sender, n) ==
    /\ version = 1
    /\ LET job == jobDetails[n] IN
       /\ IF job.status = "Completed" /\ now - job.payoutStartTime > payoutPeriod
          THEN sender = job.vodeer
          ELSE IF job.status = "Arbitration" /\ now - job.arbitrationTime > payoutPeriod
          THEN sender = job.vodiant
          ELSE TRUE
       /\ CanPay(This, job.vodiantTokensStaked)
       /\ balances' = Move(balances, This, sender, job.vodiantTokensStaked)
       /\ paidOut' = [paidOut EXCEPT ![n] = @ + job.vodiantTokensStaked]
    /\ jobDetails' = [jobDetails EXCEPT ![n] = [@ EXCEPT !.status = "Paid"]]
    /\ lastCall' = OtherCall
    /\ UNCHANGED <<serviceVars, version, admins, jobNonce, payoutPeriod, now>>

\* lines 302-314 (version 1: pays the vodiant's stake) / 552-563 (version 2: pays both stakes)
positiveVerdict(sender, n) ==
    /\ jobDetails[n].arbiter = sender
    /\ jobDetails[n].status = "Arbitration"
    /\ LET job == jobDetails[n]
           tokens == IF version = 1 THEN job.vodiantTokensStaked
                     ELSE job.vodeerTokensStaked + job.vodiantTokensStaked
       IN /\ CanPay(This, tokens)
          /\ balances' = Move(balances, This, job.vodeer, tokens)
          /\ paidOut' = [paidOut EXCEPT ![n] = @ + tokens]
    /\ jobDetails' = [jobDetails EXCEPT ![n] =
                         [@ EXCEPT !.status = VerdictStatus(@, "Paid")]]
    /\ lastCall' = [name |-> "positiveVerdict", nonce |-> n]
    /\ UNCHANGED <<serviceVars, version, admins, jobNonce, payoutPeriod, now>>

\* lines 316-328 (version 1: refunds the vodiant) / 565-579 (version 2: refunds both)
negativeVerdict(sender, n) ==
    /\ jobDetails[n].arbiter = sender
    /\ jobDetails[n].status = "Arbitration"
    /\ LET job == jobDetails[n]
           vodeerTokens == IF version = 1 THEN 0 ELSE job.vodeerTokensStaked
           vodiantTokens == job.vodiantTokensStaked
       IN /\ CanPay(This, vodeerTokens + vodiantTokens)
          /\ balances' = Move(Move(balances, This, job.vodeer, vodeerTokens),
                              This, job.vodiant, vodiantTokens)
          /\ paidOut' = [paidOut EXCEPT ![n] = @ + vodeerTokens + vodiantTokens]
    /\ jobDetails' = [jobDetails EXCEPT ![n] =
                         [@ EXCEPT !.status = VerdictStatus(@, "Unacceptable")]]
    /\ lastCall' = [name |-> "negativeVerdict", nonce |-> n]
    /\ UNCHANGED <<serviceVars, version, admins, jobNonce, payoutPeriod, now>>

\* a later block is mined
Tick ==
    /\ now + 1 \in Times
    /\ now' = now + 1
    /\ UNCHANGED <<serviceVars, version, admins, jobNonce, payoutPeriod, jobDetails,
                   balances, paidOut, lastCall>>

----------------------------------------------------------------------------
(* contract Governable (src/contract/escrow.sol, lines 51-111 and 381-441) *)

\* line 84: require(admins.length < 10)
MaxAdmins == 10

\* the callers, and the addresses they name as _admin
Callers == {"a1", "a2", "a3", "a4", "a5"}
AdminArguments == Callers \cup {ZeroAddress}

\* lines 101-109: the position isAdmin returns, the last one holding the address
AdminPos(addr) ==
    LET positions == {i \in 1..Len(admins) : admins[i] = addr}
    IN CHOOSE i \in positions : \A j \in positions : j <= i

\* lines 81-87
addAdmin(sender, _admin) ==
    /\ IsAdmin(sender)
    /\ ~IsAdmin(_admin)
    /\ Len(admins) < MaxAdmins
    /\ admins' = Append(admins, _admin)
    /\ UNCHANGED <<serviceVars, version, jobNonce, payoutPeriod, jobDetails, now, balances,
                   paidOut, lastCall>>

\* lines 89-99: the last admin takes the place of the removed one, then the
\* list is cut by one
removeAdmin(sender, _admin) ==
    /\ IsAdmin(sender)
    /\ IsAdmin(_admin)
    /\ LET pos == AdminPos(_admin)
           last == Len(admins)
           switched == IF pos < last THEN [admins EXCEPT ![pos] = admins[last]] ELSE admins
       IN admins' = SubSeq(switched, 1, last - 1)
    /\ UNCHANGED <<serviceVars, version, jobNonce, payoutPeriod, jobDetails, now, balances,
                   paidOut, lastCall>>

----------------------------------------------------------------------------
(* Specification *)

\* makeTransaction(data, from, privatekey, to): attempt takes its default 0
InitMakeTransaction ==
    /\ configGasLimit \in {0, 21000}
    /\ data \in Datas
    /\ from \in Addresses
    /\ privatekey \in PrivateKeys
    /\ to \in Addresses \cup {Undefined}
    /\ mt_pc = "try"

IdleMakeTransaction ==
    /\ configGasLimit = 0
    /\ data = ""
    /\ from = Undefined
    /\ privatekey = Undefined
    /\ to = Undefined
    /\ mt_pc = "idle"

\* waitForTransactionReceipt(txhash): time takes its default 0
InitWaitForTransactionReceipt ==
    /\ txhash \in Hashes
    /\ w_pc = "query"

IdleWaitForTransactionReceipt ==
    /\ txhash = NoHash
    /\ w_pc = "idle"

\* getTransactionStatus(req, res) with req.params.txhash
InitGetTransactionStatus ==
    /\ req_txhash \in Hashes
    /\ g_pc = "start"

IdleGetTransactionStatus ==
    /\ req_txhash = NoHash
    /\ g_pc = "idle"

InitLocals ==
    /\ attempt = 0
    /\ gasLimit = 0
    /\ nonce = 0
    /\ gasprice = 0
    /\ error = NoError
    /\ mt_txhash = NoHash
    /\ mt_thrown = NoError
    /\ estimateCalls = 0
    /\ countCalls = 0
    /\ priceCalls = 0
    /\ estimated = <<>>
    /\ sent = <<>>
    /\ time = 0
    /\ receipt = Null
    /\ transactionData = NoTransaction
    /\ w_returned = Null
    /\ w_thrown = NoError
    /\ receiptQueries = 0
    /\ txLookups = 0
    /\ lookupAt = -1
    /\ sleeps = 0
    /\ slept = 0
    /\ reciept = Null
    /\ g_transaction = NoTransaction
    /\ g_responses = <<>>
    /\ g_receiptQueries = 0
    /\ g_txLookups = 0
    /\ d_returned = Null
    /\ d_thrown = NoError

IdleConcurrent ==
    /\ c_txhash = [i \in Procs |-> NoHash]
    /\ c_time = [i \in Procs |-> 0]
    /\ c_receipt = [i \in Procs |-> Null]
    /\ c_pc = [i \in Procs |-> "idle"]
    /\ c_returned = [i \in Procs |-> Null]
    /\ c_thrown = [i \in Procs |-> NoError]
    /\ c_polls = [i \in Procs |-> 0]
    /\ n_minedAt = [h \in Hashes |-> Never]
    /\ n_known = [h \in Hashes |-> FALSE]
    /\ soloOutcome = [i \in Procs |-> Null]

IdleEscrow ==
    /\ version = 0
    /\ admins = <<>>
    /\ jobNonce = 0
    /\ payoutPeriod = 0
    /\ jobDetails = <<>>
    /\ now = 0
    /\ balances = <<>>
    /\ paidOut = <<>>
    /\ lastCall = OtherCall

IdleDeployContract ==
    /\ d_type = Undefined
    /\ d_from = Undefined
    /\ d_privatekey = Undefined
    /\ d_gasLimit = 0
    /\ d_pc = "idle"

Init ==
    /\ op \in Ops
    /\ CASE op = "makeTransaction" ->
              InitMakeTransaction /\ IdleWaitForTransactionReceipt
                                  /\ IdleGetTransactionStatus
         [] op = "waitForTransactionReceipt" ->
              IdleMakeTransaction /\ InitWaitForTransactionReceipt
                                  /\ IdleGetTransactionStatus
         [] op = "getTransactionStatus" ->
              IdleMakeTransaction /\ IdleWaitForTransactionReceipt
                                  /\ InitGetTransactionStatus
    /\ IdleDeployContract
    /\ IdleConcurrent
    /\ IdleEscrow
    /\ InitLocals

Next ==
    \/ MT_ResolveGasLimit
    \/ MT_FetchNonceAndGasPrice
    \/ MT_SignFails
    \/ MT_Send
    \/ MT_Catch
    \/ W_GetReceipt
    \/ W_HourCheck
    \/ W_GetTransaction
    \/ W_Sleep
    \/ W_Wake
    \/ W_Return
    \/ G_GetReceipt
    \/ G_ClassifyAbsent
    \/ G_ClassifyFailure
    \/ G_ClassifySuccess

Spec == Init /\ [][Next]_vars

\* every RPC call and every sleep eventually completes
FairSpec == Spec /\ WF_vars(Next)

\* deployContract(type, from, privatekey, gasLimit)
InitDeploy ==
    /\ op = "deployContract"
    /\ configGasLimit \in {0, 21000}
    /\ d_type \in ContractTypes
    /\ d_from \in Addresses
    /\ d_privatekey \in PrivateKeys
    /\ d_gasLimit \in {21000}
    /\ d_pc = "create"
    /\ data = ""
    /\ from = Undefined
    /\ privatekey = Undefined
    /\ to = Undefined
    /\ mt_pc = "idle"
    /\ IdleWaitForTransactionReceipt
    /\ IdleGetTransactionStatus
    /\ IdleConcurrent
    /\ IdleEscrow
    /\ InitLocals

NextDeploy ==
    \/ D_CreateFails
    \/ D_CallMakeTransaction
    \/ MT_ResolveGasLimit
    \/ MT_FetchNonceAndGasPrice
    \/ MT_SignFails
    \/ MT_Send
    \/ MT_Catch
    \/ D_SubmitFailed
    \/ D_CallWait
    \/ W_GetReceipt
    \/ W_HourCheck
    \/ W_GetTransaction
    \/ W_Sleep
    \/ W_Wake
    \/ W_Return
    \/ D_Return
    \/ D_TrackFailed

SpecDeploy == InitDeploy /\ [][NextDeploy]_vars

\* two calls waitForTransactionReceipt(h) on different hashes, in flight together;
\* at most one of the two transactions is never mined
InitConcurrent ==
    /\ op = "concurrent"
    /\ IdleMakeTransaction
    /\ IdleWaitForTransactionReceipt
    /\ IdleGetTransactionStatus
    /\ IdleDeployContract
    /\ IdleEscrow
    /\ InitLocals
    /\ c_txhash = [i \in Procs |-> IF i = 1 THEN "0xh1" ELSE "0xh2"]
    /\ c_time = [i \in Procs |-> 0]
    /\ c_receipt = [i \in Procs |-> Null]
    /\ c_pc = [i \in Procs |-> "query"]
    /\ c_returned = [i \in Procs |-> Null]
    /\ c_thrown = [i \in Procs |-> NoError]
    /\ c_polls = [i \in Procs |-> 0]
    /\ n_minedAt \in [Hashes -> MinedTimes \cup {Never}]
    /\ \E h \in Hashes : n_minedAt[h] # Never
    /\ n_known \in [Hashes -> BOOLEAN]
    /\ soloOutcome = [i \in Procs |-> Solo(c_txhash[i], n_minedAt, n_known)]

NextConcurrent == \E i \in Procs : CStep(i)

\* each call's RPC replies and timer arrive, whatever the other call does
SpecConcurrent ==
    InitConcurrent /\ [][NextConcurrent]_vars /\ \A i \in Procs : WF_vars(CStep(i))

\* the Escrow contract right after its constructor (lines 70-73, 195-198 / 478-480)
InitEscrow ==
    /\ op = "escrow"
    /\ IdleMakeTransaction
    /\ IdleWaitForTransactionReceipt
    /\ IdleGetTransactionStatus
    /\ IdleDeployContract
    /\ IdleConcurrent
    /\ InitLocals
    /\ version \in {1, 2}
    /\ admins = <<Deployer>>
    /\ jobNonce = 0
    /\ payoutPeriod = IF version = 1 THEN 1 ELSE 0
    /\ jobDetails = [n \in JobIds |-> AbsentJob]
    /\ now = 0
    /\ balances \in InitialBalances
    /\ paidOut = [n \in JobIds |-> 0]
    /\ lastCall = OtherCall

NextEscrow ==
    \/ \E sender \in Accounts, tokens \in Stakes : addJob(sender, tokens)
    \/ \E sender \in Accounts, n \in JobIds, tokens \in Stakes : applyForJob(sender, n, tokens)
    \/ \E sender \in Accounts, n \in JobIds : submitWork(sender, n)
    \/ \E sender \in Accounts, n \in JobIds : dissatisfactoryWorkSubmitted(sender, n)
    \/ \E sender \in Accounts, n \in JobIds, arbiter \in Accounts \cup {ZeroAddress} :
          raiseDispute(sender, n, arbiter)
    \/ \E sender \in Accounts, n \in JobIds, arbiter \in Accounts \cup {ZeroAddress} :
          assignArbiter(sender, n, arbiter)
    \/ \E sender \in Accounts, n \in JobIds : claimPayout(sender, n)
    \/ \E sender \in Accounts, n \in JobIds : positiveVerdict(sender, n)
    \/ \E sender \in Accounts, n \in JobIds : negativeVerdict(sender, n)
    \/ Tick

SpecEscrow == InitEscrow /\ [][NextEscrow]_vars

\* Governable right after its constructor (lines 70-73)
InitGovernable ==
    /\ op = "governable"
    /\ IdleMakeTransaction
    /\ IdleWaitForTransactionReceipt
    /\ IdleGetTransactionStatus
    /\ IdleDeployContract
    /\ IdleConcurrent
    /\ InitLocals
    /\ admins = <<Deployer>>
    /\ version = 0
    /\ jobNonce = 0
    /\ payoutPeriod = 0
    /\ jobDetails = <<>>
    /\ now = 0
    /\ balances = <<>>
    /\ paidOut = <<>>
    /\ lastCall = OtherCall

NextGovernable ==
    \/ \E sender \in Callers, _admin \in AdminArguments : addAdmin(sender, _admin)
    \/ \E sender \in Callers, _admin \in AdminArguments : removeAdmin(sender, _admin)

SpecGovernable == InitGovernable /\ [][NextGovernable]_vars

----------------------------------------------------------------------------
(* Properties of makeTransaction *)

Finished == mt_pc \in {"returned", "threw"}

AllNonceTooLow ==
    /\ Len(sent) >= 1
    /\ \A i \in 1..Len(sent) : sent[i].reply = NonceTooLow

\* C1: under persistent nonce collision one makeTransaction makes exactly 4
\* submission calls (never a 5th) and then fails with 'nonce too low'
C1_FourAttemptsThenNonceTooLow ==
    /\ Len(sent) <= 4
    /\ (Finished /\ AllNonceTooLow) =>
          (Len(sent) = 4 /\ mt_pc = "threw" /\ mt_thrown = NonceTooLow)

\* C2: after a 'nonce too low' reply to attempt k < 3 the operation does not end
\* before a further submission call is made, and a hash it returns is the hash
\* of the accepted attempt
C2_RecoversByRetry ==
    /\ (Len(sent) \in 1..3 /\ sent[Len(sent)].reply = NonceTooLow) => ~Finished
    /\ mt_pc = "returned" => (Len(sent) >= 1 /\ mt_txhash = sent[Len(sent)].reply)

\* C3: whenever makeTransaction returns a hash, the accepted transaction carries
\* nonce = (transaction count fetched) + (number of failed attempts before it),
\* the latter in 0..3
C3_AcceptedNonce ==
    mt_pc = "returned" =>
        LET n == Len(sent) IN
        /\ n >= 1
        /\ sent[n].reply = mt_txhash
        /\ n - 1 \in 0..3
        /\ \A i \in 1..(n - 1) : sent[i].reply \notin Hashes
        /\ sent[n].tx.nonce = nonce + (n - 1)

C3_Witness ==
    /\ mt_pc = "returned"
    /\ nonce = 2
    /\ sent[Len(sent)].tx.nonce = 2

\* C4: when sendRawTransaction fails with an error other than 'nonce too low',
\* no further submission call is made and exactly that error reaches the caller
C4_OtherErrorPropagates ==
    \A i \in 1..Len(sent) :
        sent[i].reply \in OtherSendErrors =>
            /\ i = Len(sent)
            /\ mt_pc \in {"catch", "threw"}
            /\ mt_pc = "threw" => mt_thrown = sent[i].reply

C4_Witness ==
    /\ mt_pc = "threw"
    /\ Len(sent) = 1
    /\ sent[1].reply \in OtherSendErrors
    /\ mt_thrown = sent[1].reply

\* C13: within one makeTransaction the transaction count and the gas price are
\* each fetched exactly once, and every submitted transaction carries the fetched
\* count plus its attempt offset and the fetched gas price
C13_FetchedOnce ==
    /\ countCalls <= 1
    /\ priceCalls <= 1
    /\ Len(sent) >= 1 =>
          /\ countCalls = 1
          /\ priceCalls = 1
          /\ \A i \in 1..Len(sent) :
                /\ sent[i].tx.nonce = nonce + (i - 1)
                /\ sent[i].tx.gasPrice = gasprice

C13_Witness ==
    /\ mt_pc = "threw"
    /\ Len(sent) = 1
    /\ sent[1].reply = NonceTooLow
    /\ sent[1].tx.nonce = 1
    /\ countCalls = 1
    /\ priceCalls = 1

\* C17: with a configured gas limit the submitted transaction carries it and
\* estimateGas is never called; otherwise estimateGas is called for
\* (data, from, to) and the submitted transaction carries its result
C17_GasLimitResolution ==
    /\ configGasLimit # 0 =>
          /\ estimateCalls = 0
          /\ estimated = <<>>
          /\ \A i \in 1..Len(sent) : sent[i].tx.gasLimit = configGasLimit
    /\ (configGasLimit = 0 /\ Len(sent) >= 1) =>
          /\ estimateCalls = 1
          /\ Len(estimated) = 1
          /\ estimated[1].data = data
          /\ estimated[1].from = from
          /\ estimated[1].to = to
          /\ \A i \in 1..Len(sent) : sent[i].tx.gasLimit = estimated[1].reply

C17_Witness ==
    /\ Len(sent) = 1
    /\ configGasLimit = 0
    /\ estimateCalls = 1
    /\ sent[1].tx.gasLimit = 50000

----------------------------------------------------------------------------
(* Properties of waitForTransactionReceipt *)

Terminated == w_pc \in {"returned", "threw"}

\* C5: whenever the receipt query answered with a present receipt, the operation
\* returns that receipt at every value of time: no eth.getTransaction lookup is
\* made for it, no sleep, and no error is raised
C5_PresentReceiptReturned ==
    receipt.present =>
        /\ w_pc \in {"checks", "returned"}
        /\ lookupAt # time
        /\ w_pc = "returned" => w_returned = receipt

\* C6: polling from 0 in steps of 5000 with the receipt absent and the
\* transaction known, eth.getTransaction is called exactly once
C6_LookupOnce ==
    /\ txLookups <= 1
    /\ time > 70000 => txLookups = 1

\* C6 (amended): it is called exactly twice, at time = 65000 and time = 70000
C6_LookupTwice ==
    /\ txLookups <= 2
    /\ lookupAt \in {-1, 65000, 70000}
    /\ time <= 60000 => txLookups = 0
    /\ time > 70000 => txLookups = 2

C6_Witness ==
    /\ w_pc = "threw"
    /\ w_thrown = HourMessage
    /\ ReceiptIsNull(receipt)
    /\ txLookups = 2

\* C7: every value waitForTransactionReceipt returns is a present receipt with
\* a defined status; otherwise it raises the timeout or the not-propagated error
C7_OnlyResolvedReceipts ==
    /\ w_pc = "returned" =>
          (w_returned.present /\ w_returned.status \in {"0x1", "0x0"})
    /\ w_pc = "threw" => w_thrown \in {HourMessage, NotReachedMessage}

\* C8: at time = 65000 with the receipt absent the node is asked for the
\* transaction, and when it has no record the operation fails there with the
\* not-propagated error and polls no more
C8_NotPropagatedAt65000 ==
    /\ (time = 65000 /\ ReceiptIsNull(receipt) /\ w_pc \notin {"query", "checks"}) =>
          lookupAt = 65000
    /\ (time = 65000 /\ ReceiptIsNull(receipt) /\ lookupAt = 65000
          /\ ~transactionData.present) =>
          (w_pc = "threw" /\ w_thrown = NotReachedMessage /\ receiptQueries = 14)

C8_Witness ==
    /\ time = 65000
    /\ ReceiptIsNull(receipt)
    /\ ~transactionData.present
    /\ w_pc = "threw"
    /\ w_thrown = NotReachedMessage

\* C9: the timeout error is raised only when the receipt is absent and
\* time > 3600000, namely at time = 3605000, and nothing follows it
C9_TimeoutOnlyWhenAbsent ==
    w_thrown = HourMessage =>
        /\ ReceiptIsNull(receipt)
        /\ time > 3600000
        /\ time = 3605000
        /\ w_pc = "threw"

\* C10: when every RPC call and every sleep completes, every tracking operation
\* terminates, returning a receipt or failing with the timeout or not-propagated
\* error, and time never exceeds 3605000
C10_Terminates ==
    /\ [](time <= 3605000 /\ receiptQueries <= 722)
    /\ [](Terminated => (w_pc = "returned" /\ w_returned.present)
                          \/ (w_pc = "threw" /\ w_thrown \in {HourMessage, NotReachedMessage}))
    /\ (w_pc = "query") ~> Terminated

C10_Witness ==
    /\ w_pc = "threw"
    /\ time = 3605000
    /\ receiptQueries = 722

\* C18: in every state of a tracking operation time is 5000 times the number of
\* sleeps performed, all of 5000 ms, and exactly one sleep lies between two
\* consecutive receipt queries
C18_ElapsedCountsSleeps ==
    /\ time = 5000 * sleeps
    /\ time % 5000 = 0
    /\ slept = time
    /\ w_pc = "query" => receiptQueries = sleeps
    /\ w_pc \in {"checks", "branch", "sleep", "returned", "threw"} =>
          receiptQueries = sleeps + 1

C18_Witness ==
    /\ w_pc = "checks"
    /\ sleeps = 3
    /\ time = 15000
    /\ receiptQueries = 4

\* C19: the not-propagated error is raised only for 60000 < time <= 70000 after
\* a lookup that found no record; when the lookup finds a record and the receipt
\* is absent, the tracker goes on: it sleeps and polls again with time + 5000
C19_NotPropagatedOnlyInWindow ==
    /\ [](w_thrown = NotReachedMessage =>
            /\ time > 60000
            /\ time <= 70000
            /\ lookupAt = time
            /\ ~transactionData.present)
    /\ []((lookupAt = time /\ transactionData.present /\ ReceiptIsNull(receipt)) =>
            /\ w_pc \in {"branch", "sleep"}
            /\ w_thrown = NoError
            /\ ENABLED (W_Sleep \/ W_Wake))
    /\ [][(w_pc = "branch" /\ ReceiptIsNull(receipt)) => w_pc' = "sleep"]_vars
    /\ [][w_pc = "sleep" =>
            (w_pc' = "query" /\ time' = time + 5000 /\ slept' = slept + 5000)]_vars

C19_Witness ==
    /\ w_pc = "query"
    /\ time = 70000
    /\ lookupAt = 65000
    /\ txLookups = 1

----------------------------------------------------------------------------
(* Properties of getTransactionStatus *)

Responded == g_pc = "responded"

\* C11: getTransactionStatus answers with the outcome of the decision table:
\* no receipt and no record -> NOT_REACHED, no receipt and a record -> PENDING,
\* failure with gasUsed = gas -> OUTOFGAS, failure otherwise -> REVERTED,
\* success -> SUCCESS
C11_DecisionTable ==
    Responded =>
        /\ Len(g_responses) = 1
        /\ g_responses[1].kind = "success"
        /\ NoReciept(reciept) =>
              g_responses[1].body = (IF g_transaction.present THEN "PENDING"
                                                              ELSE "NOT_REACHED")
        /\ (reciept.present /\ reciept.status = "0x0") =>
              g_responses[1].body = (IF reciept.gasUsed = g_transaction.gas
                                     THEN "OUTOFGAS" ELSE "REVERTED")
        /\ (reciept.present /\ reciept.status = "0x1") =>
              g_responses[1].body = "SUCCESS"

\* C16: getTransactionStatus is one round: exactly one receipt query, at most
\* one eth.getTransaction lookup, no sleep or re-poll, and exactly one response,
\* which it always gets to send
C16_SingleRound ==
    /\ g_receiptQueries <= 1
    /\ g_txLookups <= 1
    /\ Len(g_responses) <= 1
    /\ op = "getTransactionStatus" => (sleeps = 0 /\ receiptQueries = 0 /\ w_pc = "idle")
    /\ Responded => (g_receiptQueries = 1 /\ Len(g_responses) = 1)
    /\ g_pc \in {"start", "classify"} =>
          /\ Len(g_responses) = 0
          /\ ENABLED (G_GetReceipt \/ G_ClassifyAbsent \/ G_ClassifyFailure
                        \/ G_ClassifySuccess)

C16_Witness ==
    /\ Responded
    /\ reciept.present
    /\ reciept.status = "0x0"
    /\ g_receiptQueries = 1
    /\ Len(g_responses) = 1

----------------------------------------------------------------------------
(* Properties of deployContract *)

\* C12: in deployContract no receipt query is issued before the submission has
\* returned a hash, the tracked hash is the hash the submission returned, and
\* after a failed submission no receipt query or poll is ever issued
C12_SubmitThenTrack ==
    /\ (w_pc # "idle" \/ receiptQueries > 0) =>
          /\ mt_pc = "returned"
          /\ txhash = mt_txhash
          /\ txhash \in Hashes
          /\ txhash = sent[Len(sent)].reply
    /\ (mt_pc = "threw" \/ d_thrown = NoSuchContractMessage) =>
          /\ w_pc = "idle"
          /\ receiptQueries = 0
          /\ txLookups = 0
          /\ sleeps = 0
    /\ (d_pc = "threw" /\ mt_pc = "threw") => d_thrown = mt_thrown

C12_Witness ==
    /\ d_pc = "returned"
    /\ txhash = "0xh2"
    /\ mt_txhash = "0xh2"
    /\ receiptQueries = 3
    /\ d_returned.present

----------------------------------------------------------------------------
(* Properties of concurrent tracking *)

CTerminated(i) == c_pc[i] \in {"returned", "threw"}

\* C15: two concurrent waitForTransactionReceipt calls on different hashes do
\* not interfere: under every interleaving each call polls at elapsed times
\* 0, 5000, 10000, ... of its own, ends at the elapsed time and with the result
\* it has when run alone against the same node, and is never blocked by the other
C15_NoInterference ==
    \A i \in Procs :
        /\ c_pc[i] = "query" => c_time[i] = 5000 * c_polls[i]
        /\ c_pc[i] # "query" => c_time[i] = 5000 * (c_polls[i] - 1)
        /\ soloOutcome[i].pc \in {"returned", "threw"}
        /\ c_time[i] <= soloOutcome[i].time
        /\ CTerminated(i) =>
              /\ c_pc[i] = soloOutcome[i].pc
              /\ c_time[i] = soloOutcome[i].time
              /\ c_returned[i] = soloOutcome[i].returned
              /\ c_thrown[i] = soloOutcome[i].thrown
        /\ ~CTerminated(i) => ENABLED CStep(i)

C15_Witness ==
    /\ c_pc[1] = "returned"
    /\ c_time[1] = 5000
    /\ c_returned[1].status = "0x1"
    /\ c_pc[2] = "threw"
    /\ c_thrown[2] = NotReachedMessage
    /\ c_time[2] = 65000


VerdictNames == {"positiveVerdict", "negativeVerdict"}

\* the tokens a verdict on job n transfers out of the contract
VerdictTokens(n) ==
    IF version = 1 THEN jobDetails[n].vodiantTokensStaked
    ELSE jobDetails[n].vodeerTokensStaked + jobDetails[n].vodiantTokensStaked

TokensStaked(n) == jobDetails[n].vodiantTokensStaked + jobDetails[n].vodeerTokensStaked

\* C21: the tokens the contract has transferred out for a job never exceed the
\* tokens staked for it, and every transfer for a job goes to its vodeer or vodiant
C21_PayoutsWithinStake ==
    /\ [](\A n \in JobIds : paidOut[n] <= TokensStaked(n))
    /\ [][\A n \in JobIds, a \in Accounts :
             (paidOut'[n] > paidOut[n] /\ balances'[a] > balances[a]) =>
                 a \in {jobDetails[n].vodeer, jobDetails[n].vodiant}]_vars

\* C22: every transaction submitted within one makeTransaction chain carries the
\* data and the `to` address of the first call, and two transactions of the chain
\* differ in nothing but the nonce
C22_SameDataAndTo ==
    /\ \A i \in 1..Len(sent) :
          /\ sent[i].tx.data = data
          /\ sent[i].tx.to = to
    /\ \A i, j \in 1..Len(sent) :
          [sent[i].tx EXCEPT !.nonce = 0] = [sent[j].tx EXCEPT !.nonce = 0]

\* a chain whose submission to a named recipient was rejected for its nonce, and
\* which has ended
C22_Witness ==
    /\ op = "makeTransaction"
    /\ mt_pc = "threw"
    /\ Len(sent) = 1
    /\ sent[1].reply = NonceTooLow
    /\ to \in Addresses
    /\ sent[1].tx.to = to
    /\ sent[1].tx.data = data

\* C23: getTransactionStatus answers SUCCESS only for a present receipt whose
\* status field is defined and is the success value
C23_SuccessOnlyForSuccessStatus ==
    \A i \in 1..Len(g_responses) :
        (g_responses[i].kind = "success" /\ g_responses[i].body = "SUCCESS") =>
            /\ ~NoReciept(reciept)
            /\ reciept.status = "0x1"

\* C24: the admins list holds no address twice and has between 1 and 10 entries
C24_AdminsWellFormed ==
    /\ Len(admins) >= 1
    /\ Len(admins) <= MaxAdmins
    /\ \A i, j \in 1..Len(admins) : admins[i] = admins[j] => i = j

============================================================================
